---- MODULE Spec2Model ----
(***************************************************************************)
(* Model of the MCP NotesHub server: the in-memory chunk session cache of  *)
(* mcp-server/main.py, the adaptive retrieval of                           *)
(* mcp-server/utils/rag_helper.py and the segmenter of                     *)
(* mcp-server/utils/unstructured_helper.py.                                *)
(*                                                                         *)
(* Strings are sequences of tokens.  The tokens "none" and "::" stand for  *)
(* those literal substrings; the other tokens are single characters.  No   *)
(* token is a prefix of another, so two token sequences are equal exactly  *)
(* when the Python strings they stand for are equal.                       *)
(* An optional string is <<>> (None) or <<s>> (the string s).              *)
(***************************************************************************)
EXTENDS Integers, Sequences, FiniteSets, TLC

VARIABLES
    chunk_cache,   \* main.py:28  cache_key -> reference (object id) of a session dict
    heap,          \* the session dicts: object id -> [file, topic, chunks, served, mode]
    response,      \* the last completed call: its parameters, payload and history
    servedLog,     \* history: cache_key -> indices served by the live session, in order
    lastQuery,     \* history: cache_key -> how the last query on that key ended
    pc,            \* concurrent handlers: thread -> position in its handler
    frame,         \* concurrent handlers: thread -> local variables of the running call
    ret,           \* concurrent handlers: thread -> how its last call ended
    call,          \* helper functions on their own: the call made, with its arguments
    value          \* helper functions on their own: what the call returned

vars == <<chunk_cache, heap, response, servedLog, lastQuery, pc, frame, ret,
          call, value>>

-----------------------------------------------------------------------------
(* Bounds of the model                                                     *)

\* longest list of documents a splitter or retriever hands back
MaxDocs == 2
\* most serves recorded for one live session
MaxLog == 3

-----------------------------------------------------------------------------
(* Values                                                                  *)

None == <<>>
Some(s) == <<s>>

\* Python truthiness of an optional string: None and "" are falsy
Truthy(o) == o # None /\ o[1] # <<>>

\* `o or default`
OrElse(o, default) == IF Truthy(o) THEN o[1] ELSE default

\* file / topic query parameters the handlers are called with
Files == {None, Some(<<"a">>)}
Topics == {None, Some(<<"none">>)}

\* page_content strings a splitter or retriever can hand back
PageTexts == {<<"x">>, <<"y">>, <<" ">>}

Range(s) == {s[i] : i \in 1..Len(s)}

SeqsUpTo(S, n) == UNION {[1..m -> S] : m \in 0..n}

-----------------------------------------------------------------------------
(* Pure helpers of the source                                              *)

\* the whitespace characters of the modelled strings: blank and newline
Whitespace == {" ", "\n"}

\* str.strip(): drop leading and trailing whitespace
RECURSIVE lstrip(_)
lstrip(s) == IF s # <<>> /\ Head(s) \in Whitespace THEN lstrip(Tail(s)) ELSE s

RECURSIVE rstrip(_)
rstrip(s) ==
    IF s # <<>> /\ s[Len(s)] \in Whitespace
    THEN rstrip(SubSeq(s, 1, Len(s) - 1)) ELSE s

strip(s) == rstrip(lstrip(s))

\* [d.page_content.strip() for d in docs if d.page_content.strip()]
RECURSIVE stripped_nonblank(_)
stripped_nonblank(docs) ==
    IF docs = <<>> THEN <<>>
    ELSE (IF strip(Head(docs)) # <<>> THEN <<strip(Head(docs))>> ELSE <<>>)
         \o stripped_nonblank(Tail(docs))

\* list.index(x): position (0-based) of the first element equal to x
index(list, x) == (CHOOSE i \in 1..Len(list) :
                      list[i] = x /\ \A j \in 1..(i - 1) : list[j] # x) - 1

\* list(dict.fromkeys(xs)): exact duplicates removed, first occurrences kept
RECURSIVE fromkeys(_)
fromkeys(xs) ==
    IF xs = <<>> THEN <<>>
    ELSE LET init == fromkeys(SubSeq(xs, 1, Len(xs) - 1))
             last == xs[Len(xs)]
         IN IF last \in Range(init) THEN init ELSE Append(init, last)

\* f"{file or 'none'}::{topic or 'none'}"
cache_key(file, topic) ==
    OrElse(file, <<"none">>) \o <<"::">> \o OrElse(topic, <<"none">>)

-----------------------------------------------------------------------------
(* difflib.SequenceMatcher(None, a, b).ratio(), without junk                *)

\* length of the common run of a from i and b from j
RECURSIVE CommonRun(_, _, _, _)
CommonRun(a, b, i, j) ==
    IF i > Len(a) \/ j > Len(b) THEN 0
    ELSE IF a[i] # b[j] THEN 0
    ELSE 1 + CommonRun(a, b, i + 1, j + 1)

\* find_longest_match: the longest matching block, earliest in a, then earliest in b
find_longest_match(a, b) ==
    LET blocks == {[i |-> i, j |-> j, k |-> CommonRun(a, b, i, j)] :
                      i \in 1..Len(a), j \in 1..Len(b)}
    IN CHOOSE m \in blocks :
          \A o \in blocks :
              \/ m.k > o.k
              \/ m.k = o.k /\ m.i < o.i
              \/ m.k = o.k /\ m.i = o.i /\ m.j <= o.j

\* get_matching_blocks: total size of the blocks found left and right recursively
RECURSIVE matches(_, _)
matches(a, b) ==
    IF a = <<>> \/ b = <<>> THEN 0
    ELSE LET m == find_longest_match(a, b)
         IN IF m.k = 0 THEN 0
            ELSE matches(SubSeq(a, 1, m.i - 1), SubSeq(b, 1, m.j - 1))
                 + m.k
                 + matches(SubSeq(a, m.i + m.k, Len(a)), SubSeq(b, m.j + m.k, Len(b)))

\* threshold=0.9, as the fraction ThresholdNum / ThresholdDen
ThresholdNum == 9
ThresholdDen == 10

\* ratio() > threshold, where ratio() is 2.0 * matches / (len(a) + len(b)), 1.0 if both empty
is_similar(a, b) ==
    LET T == Len(a) + Len(b)
    IN IF T = 0 THEN ThresholdDen > ThresholdNum
       ELSE 2 * matches(a, b) * ThresholdDen > ThresholdNum * T

\* deduplicate_semantic with a fault: the candidate is compared with the chunk just
\* before it in the input, accepted or not, instead of with the accepted chunks
deduplicate_adjacent(chunks) ==
    LET kept[n \in 0..Len(chunks)] ==
            IF n = 0 THEN <<>>
            ELSE kept[n - 1] \o (IF n > 1 /\ is_similar(chunks[n], chunks[n - 1])
                                 THEN <<>> ELSE <<chunks[n]>>)
    IN kept[Len(chunks)]

\* rag_helper.py:105-111: greedy, order-preserving removal of near-duplicates
RECURSIVE deduplicate_semantic(_)
deduplicate_semantic(chunks) ==
    IF chunks = <<>> THEN <<>>
    ELSE LET unique == deduplicate_semantic(SubSeq(chunks, 1, Len(chunks) - 1))
             chunk == chunks[Len(chunks)]
         IN IF \E n \in 1..Len(unique) : is_similar(chunk, unique[n])
            THEN unique
            ELSE Append(unique, chunk)

-----------------------------------------------------------------------------
(* The world outside the process, as one retrieval sees it                 *)

\* os.listdir(NOTES_DIR): file names as [stem, ext]
NotesDir == <<[stem |-> "n1", ext |-> ".md"],
              [stem |-> "n2", ext |-> ".txt"],
              [stem |-> "n3", ext |-> ".bin"]>>

\* file.endswith(('.pdf', '.docx', '.txt', '.md', '.html'))
supported(file) == file.ext \in {".pdf", ".docx", ".txt", ".md", ".html"}

DocLists == SeqsUpTo(PageTexts, MaxDocs)

\* what building and querying the index of one listed file gives:
\* an exception, or the retrieved documents
BuildOutcomes == {[ok |-> FALSE, docs |-> <<>>]}
                 \cup {[ok |-> TRUE, docs |-> d] : d \in DocLists}

NoBuilds == [n \in 1..Len(NotesDir) |-> [ok |-> FALSE, docs |-> <<>>]]

\* exists: the named file is in NOTES_DIR; parsed: parsing and indexing it succeed;
\* docs: what the splitter / retriever returns for it;
\* listed: NOTES_DIR can be listed; built: the outcome for each file of the
\* listing (topic-only retrieval)
NamedFileWorlds ==
    {[exists |-> FALSE, parsed |-> FALSE, docs |-> <<>>, listed |-> TRUE,
      built |-> NoBuilds],
     [exists |-> TRUE, parsed |-> FALSE, docs |-> <<>>, listed |-> TRUE,
      built |-> NoBuilds]}
    \cup {[exists |-> TRUE, parsed |-> TRUE, docs |-> d, listed |-> TRUE,
           built |-> NoBuilds] : d \in DocLists}

ListingWorlds ==
    {[exists |-> FALSE, parsed |-> FALSE, docs |-> <<>>, listed |-> TRUE,
      built |-> b] :
        b \in {f \in [1..Len(NotesDir) -> BuildOutcomes] :
                  \A n \in 1..Len(NotesDir) :
                      ~supported(NotesDir[n]) => f[n] = NoBuilds[n]}}
    \cup {[exists |-> FALSE, parsed |-> FALSE, docs |-> <<>>, listed |-> FALSE,
           built |-> NoBuilds]}

\* the part of the world the retrieval for (file, topic) reads
WorldsFor(file, topic) ==
    IF Truthy(file) THEN NamedFileWorlds
    ELSE IF Truthy(topic) THEN ListingWorlds
    ELSE {[exists |-> FALSE, parsed |-> FALSE, docs |-> <<>>, listed |-> TRUE,
           built |-> NoBuilds]}

-----------------------------------------------------------------------------
(* rag_helper.get_relevant_chunks                                          *)

Raised(exception) == [raised |-> exception]

Result(mode, file, topic, chunks) ==
    [mode |-> mode, file |-> file, topic |-> topic,
     total_chunks |-> Len(chunks), context_chunks |-> chunks]

\* all_chunks after the loop over the first n files of the listing
RECURSIVE all_chunks(_, _)
all_chunks(world, n) ==
    IF n = 0 THEN <<>>
    ELSE all_chunks(world, n - 1)
         \o (IF supported(NotesDir[n]) /\ world.built[n].ok
             THEN stripped_nonblank(world.built[n].docs)
             ELSE <<>>)

\* get_relevant_chunks with a fault: topic-only retrieval does not catch the
\* failure of a file of the listing
get_relevant_chunks_strict(file_name, topic, world) ==
    IF ~Truthy(file_name) /\ ~Truthy(topic) THEN Raised("ValueError")
    ELSE IF Truthy(file_name) /\ ~Truthy(topic) THEN
        IF ~world.exists THEN Raised("FileNotFoundError")
        ELSE IF ~world.parsed THEN Raised("RuntimeError")
        ELSE Result("file_only", file_name, None, stripped_nonblank(world.docs))
    ELSE IF Truthy(topic) /\ ~Truthy(file_name) THEN
        IF ~world.listed THEN Raised("FileNotFoundError")
        ELSE IF \E n \in 1..Len(NotesDir) :
                   supported(NotesDir[n]) /\ ~world.built[n].ok
        THEN Raised("RuntimeError")
        ELSE Result("topic_only", None, topic,
                    fromkeys(all_chunks(world, Len(NotesDir))))
    ELSE
        IF ~world.exists THEN Raised("FileNotFoundError")
        ELSE IF ~world.parsed THEN Raised("RuntimeError")
        ELSE Result("file_and_topic", file_name, topic,
                    deduplicate_semantic(stripped_nonblank(world.docs)))

\* rag_helper.py:114-195
get_relevant_chunks(file_name, topic, world) ==
    IF ~Truthy(file_name) /\ ~Truthy(topic) THEN Raised("ValueError")
    ELSE IF Truthy(file_name) /\ ~Truthy(topic) THEN
        IF ~world.exists THEN Raised("FileNotFoundError")
        ELSE IF ~world.parsed THEN Raised("RuntimeError")
        ELSE Result("file_only", file_name, None, stripped_nonblank(world.docs))
    ELSE IF Truthy(topic) /\ ~Truthy(file_name) THEN
        IF ~world.listed THEN Raised("FileNotFoundError")
        ELSE Result("topic_only", None, topic,
                    fromkeys(all_chunks(world, Len(NotesDir))))
    ELSE
        IF ~world.exists THEN Raised("FileNotFoundError")
        ELSE IF ~world.parsed THEN Raised("RuntimeError")
        ELSE Result("file_and_topic", file_name, topic,
                    deduplicate_semantic(stripped_nonblank(world.docs)))

\* everything get_relevant_chunks(file, topic) can return or raise, over all worlds
Retrievals ==
    [file \in Files, topic \in Topics |->
        {get_relevant_chunks(file, topic, world) : world \in WorldsFor(file, topic)}]

-----------------------------------------------------------------------------
(* The session cache of main.py: helpers                                   *)

Threads == {1, 2}

\* every cache key the modelled calls can derive
Keys == {cache_key(file, topic) : file \in Files, topic \in Topics}

\* no object / no value held in a local variable
NoRef == -1
Unset == <<>>

\* no helper function is called on its own
NoCall == [fn |-> "none"]

IdleFrame == [op |-> "idle", file |-> None, topic |-> None, session |-> NoRef,
              remaining |-> Unset, chunk |-> Unset, chunk_index |-> NoRef,
              result |-> Unset, first_chunk |-> Unset]

NoPayload == [x \in {} |-> x]

\* the dict object stored at main.py:77
new_session(file, topic, result) ==
    [file |-> file, topic |-> topic, chunks |-> result.context_chunks,
     served |-> {}, mode |-> result.mode]

\* [c for i, c in enumerate(session["chunks"]) if i not in session["served"]]
remaining_of(session) ==
    LET upto[n \in 0..Len(session.chunks)] ==
            IF n = 0 THEN <<>>
            ELSE upto[n - 1] \o (IF (n - 1) \notin session.served
                                 THEN <<session.chunks[n]>> ELSE <<>>)
    IN upto[Len(session.chunks)]

\* del d[key]
delete(d, key) == [k \in DOMAIN d \ {key} |-> d[k]]

\* session["served"].add(chunk_index) on the object with reference ref
mark_served(h, ref, chunk_index) ==
    [h EXCEPT ![ref].served = @ \cup {chunk_index}]

\* a reference no live object has (the smallest one)
new_ref(h) == CHOOSE n \in 0..Cardinality(DOMAIN h) :
                  n \notin DOMAIN h /\ \A m \in 0..(n - 1) : m \in DOMAIN h

\* the objects still referenced by the cache, a local variable or a returned value
live_refs(cache, frames) ==
    {cache[k] : k \in DOMAIN cache} \cup {frames[t].session : t \in Threads}

\* reference counting: an object nothing refers to is gone
collect(h, refs) == [o \in DOMAIN h \cap refs |-> h[o]]

\* the payloads of get_chunk
ClearedPayload == [message |-> "All chunks served. Cache cleared."]

ServedPayload(session, chunk_index, chunk, remaining) ==
    [mode |-> session.mode, file |-> session.file, topic |-> session.topic,
     chunk_index |-> chunk_index + 1, chunk |-> chunk,
     remaining |-> Len(remaining) - 1, message |-> "Served from cache."]

EmptyPayload(result) ==
    [message |-> "No relevant chunks found.", mode |-> result.mode]

CreatedPayload(file, topic, result, first_chunk) ==
    [mode |-> result.mode, file |-> file, topic |-> topic, chunk |-> first_chunk,
     remaining |-> Len(result.context_chunks) - 1,
     message |-> "Cache created and first chunk served."]

ErrorPayload(exception) == [error |-> exception]

\* the payloads of clear_cache and stop_session
ClearDonePayload(file, topic) ==
    [message |-> "Cache cleared for query", file |-> OrElse(file, <<"*">>),
     topic |-> OrElse(topic, <<"*">>)]
ClearNonePayload == [message |-> "No cache found to clear."]
StopDonePayload == [message |-> "Session stopped and cache cleared."]
StopNonePayload == [message |-> "No active session to stop."]

-----------------------------------------------------------------------------
(* The handlers, one request at a time: each action is a whole call        *)

\* main.py:28: the cache is empty and no call runs
EmptyCache ==
    /\ chunk_cache = [k \in {} |-> NoRef]
    /\ heap = [o \in {} |-> NoRef]
    /\ response = [op |-> "none", file |-> None, topic |-> None,
                   payload |-> NoPayload, retrieval |-> FALSE, after |-> "none"]
    /\ servedLog = [k \in {} |-> <<>>]
    /\ lastQuery = [k \in Keys |-> "never"]
    /\ pc = [t \in Threads |-> "idle"]
    /\ frame = [t \in Threads |-> IdleFrame]
    /\ ret = [t \in Threads |-> NoPayload]

Init ==
    /\ EmptyCache
    /\ call = NoCall
    /\ value = Unset

\* the session dict stored under key
Session(key) == heap[chunk_cache[key]]

\* what a call returned, with its history: whether it invoked get_relevant_chunks
\* and how the query before it on the same key had ended
Returned(op, file, topic, payload, retrieval) ==
    [op |-> op, file |-> file, topic |-> topic, payload |-> payload,
     retrieval |-> retrieval,
     after |-> IF op = "query" THEN lastQuery[cache_key(file, topic)] ELSE "none"]

\* evict with a fault: Cleared is returned but the del is forgotten
evict_keep(file, topic, cache_key_) ==
    /\ response' = Returned("query", file, topic, ClearedPayload, FALSE)
    /\ lastQuery' = [lastQuery EXCEPT ![cache_key_] = "cleared"]
    /\ UNCHANGED <<chunk_cache, heap, servedLog>>

\* main.py:51-53: every chunk was served, the session is deleted
evict(file, topic, cache_key_) ==
    /\ chunk_cache' = delete(chunk_cache, cache_key_)
    /\ heap' = collect(heap, live_refs(chunk_cache', frame))
    /\ response' = Returned("query", file, topic, ClearedPayload, FALSE)
    /\ servedLog' = delete(servedLog, cache_key_)
    /\ lastQuery' = [lastQuery EXCEPT ![cache_key_] = "cleared"]

\* main.py:56-68: chunk was picked among the remaining ones of the session
serve(file, topic, cache_key_, chunk) ==
    LET session == heap[chunk_cache[cache_key_]]
        chunk_index == index(session.chunks, chunk)
    IN /\ heap' = mark_served(heap, chunk_cache[cache_key_], chunk_index)
       /\ response' = Returned("query", file, topic,
              ServedPayload(session, chunk_index, chunk, remaining_of(session)), FALSE)
       /\ servedLog' = [servedLog EXCEPT ![cache_key_] = Append(@, chunk_index)]
       /\ lastQuery' = [lastQuery EXCEPT ![cache_key_] = "served"]
       /\ UNCHANGED chunk_cache

\* main.py:46-68, the session exists
serve_from_cache(file, topic, cache_key_) ==
    IF remaining_of(heap[chunk_cache[cache_key_]]) = <<>>
    THEN evict(file, topic, cache_key_)
    ELSE /\ Len(servedLog[cache_key_]) < MaxLog
         /\ \E chunk \in Range(remaining_of(heap[chunk_cache[cache_key_]])) :
               serve(file, topic, cache_key_, chunk)

\* failed_build with a fault: the session is stored before the retrieval, and stays
failed_build_partial(file, topic, cache_key_, exception) ==
    /\ chunk_cache' = (cache_key_ :> new_ref(heap)) @@ chunk_cache
    /\ heap' = (new_ref(heap) :> [file |-> file, topic |-> topic, chunks |-> <<>>,
                                  served |-> {}, mode |-> "pending"]) @@ heap
    /\ response' = Returned("query", file, topic, ErrorPayload(exception), TRUE)
    /\ servedLog' = (cache_key_ :> <<>>) @@ servedLog
    /\ lastQuery' = [lastQuery EXCEPT ![cache_key_] = "error"]

\* main.py:98-99: get_relevant_chunks raised
failed_build(file, topic, cache_key_, exception) ==
    /\ response' = Returned("query", file, topic, ErrorPayload(exception), TRUE)
    /\ lastQuery' = [lastQuery EXCEPT ![cache_key_] = "error"]
    /\ UNCHANGED <<chunk_cache, heap, servedLog>>

\* empty_build with a fault: the empty result is cached like any other
empty_build_cached(file, topic, cache_key_, result) ==
    /\ chunk_cache' = (cache_key_ :> new_ref(heap)) @@ chunk_cache
    /\ heap' = (new_ref(heap) :> new_session(file, topic, result)) @@ heap
    /\ response' = Returned("query", file, topic, EmptyPayload(result), TRUE)
    /\ servedLog' = (cache_key_ :> <<>>) @@ servedLog
    /\ lastQuery' = [lastQuery EXCEPT ![cache_key_] = "empty"]

\* main.py:74-75: get_relevant_chunks found no chunks
empty_build(file, topic, cache_key_, result) ==
    /\ response' = Returned("query", file, topic, EmptyPayload(result), TRUE)
    /\ lastQuery' = [lastQuery EXCEPT ![cache_key_] = "empty"]
    /\ UNCHANGED <<chunk_cache, heap, servedLog>>

\* main.py:77-96: the session is stored and first_chunk served from it
seed_and_serve(file, topic, cache_key_, result, first_chunk) ==
    LET ref == new_ref(heap)
        chunk_index == index(result.context_chunks, first_chunk)
    IN /\ chunk_cache' = (cache_key_ :> ref) @@ chunk_cache
       /\ heap' = mark_served((ref :> new_session(file, topic, result)) @@ heap,
                              ref, chunk_index)
       /\ response' = Returned("query", file, topic,
              CreatedPayload(file, topic, result, first_chunk), TRUE)
       /\ servedLog' = (cache_key_ :> <<chunk_index>>) @@ servedLog
       /\ lastQuery' = [lastQuery EXCEPT ![cache_key_] = "created"]

\* main.py:71-99, no session exists
build_and_serve(file, topic, cache_key_) ==
    \E result \in Retrievals[file, topic] :
        IF "raised" \in DOMAIN result
        THEN failed_build(file, topic, cache_key_, result.raised)
        ELSE IF result.context_chunks = <<>>
        THEN empty_build(file, topic, cache_key_, result)
        ELSE \E first_chunk \in Range(result.context_chunks) :
                seed_and_serve(file, topic, cache_key_, result, first_chunk)

\* main.py:35-99
get_chunk(file, topic) ==
    /\ IF cache_key(file, topic) \in DOMAIN chunk_cache
       THEN serve_from_cache(file, topic, cache_key(file, topic))
       ELSE build_and_serve(file, topic, cache_key(file, topic))
    /\ UNCHANGED <<pc, frame, ret, call, value>>

\* main.py:106-117
clear_cache(file, topic) ==
    /\ IF cache_key(file, topic) \in DOMAIN chunk_cache
       THEN /\ chunk_cache' = delete(chunk_cache, cache_key(file, topic))
            /\ heap' = collect(heap, live_refs(chunk_cache', frame))
            /\ servedLog' = delete(servedLog, cache_key(file, topic))
            /\ response' = Returned("clear", file, topic,
                                    ClearDonePayload(file, topic), FALSE)
       ELSE /\ response' = Returned("clear", file, topic, ClearNonePayload, FALSE)
            /\ UNCHANGED <<chunk_cache, heap, servedLog>>
    /\ UNCHANGED <<lastQuery, pc, frame, ret, call, value>>

\* stop_session with a fault: stopping clears the whole cache
stop_session_all(file, topic) ==
    /\ IF cache_key(file, topic) \in DOMAIN chunk_cache
       THEN /\ chunk_cache' = [k \in {} |-> NoRef]
            /\ heap' = collect(heap, live_refs(chunk_cache', frame))
            /\ servedLog' = [k \in {} |-> <<>>]
            /\ response' = Returned("stop", file, topic, StopDonePayload, FALSE)
       ELSE /\ response' = Returned("stop", file, topic, StopNonePayload, FALSE)
            /\ UNCHANGED <<chunk_cache, heap, servedLog>>
    /\ UNCHANGED <<lastQuery, pc, frame, ret, call, value>>

\* main.py:124-135
stop_session(file, topic) ==
    /\ IF cache_key(file, topic) \in DOMAIN chunk_cache
       THEN /\ chunk_cache' = delete(chunk_cache, cache_key(file, topic))
            /\ heap' = collect(heap, live_refs(chunk_cache', frame))
            /\ servedLog' = delete(servedLog, cache_key(file, topic))
            /\ response' = Returned("stop", file, topic, StopDonePayload, FALSE)
       ELSE /\ response' = Returned("stop", file, topic, StopNonePayload, FALSE)
            /\ UNCHANGED <<chunk_cache, heap, servedLog>>
    /\ UNCHANGED <<lastQuery, pc, frame, ret, call, value>>

\* cache_status with a fault: the snapshot also evicts the exhausted sessions
cache_status_evicting ==
    /\ chunk_cache' = [key \in {k \in DOMAIN chunk_cache :
                                  remaining_of(heap[chunk_cache[k]]) # <<>>}
                           |-> chunk_cache[key]]
    /\ heap' = collect(heap, live_refs(chunk_cache', frame))
    /\ servedLog' = [key \in DOMAIN chunk_cache' |-> servedLog[key]]
    /\ response' = Returned("status", None, None,
           IF DOMAIN chunk_cache = {}
           THEN [cache |-> "empty"]
           ELSE [active_caches |->
                    [key \in DOMAIN chunk_cache |->
                        LET data == heap[chunk_cache[key]]
                        IN [mode |-> data.mode, file |-> data.file,
                            topic |-> data.topic,
                            total_chunks |-> Len(data.chunks),
                            served |-> Cardinality(data.served),
                            remaining |-> Len(data.chunks) - Cardinality(data.served)]]],
           FALSE)
    /\ UNCHANGED <<lastQuery, pc, frame, ret, call, value>>

\* main.py:142-160
cache_status ==
    /\ response' = Returned("status", None, None,
           IF DOMAIN chunk_cache = {}
           THEN [cache |-> "empty"]
           ELSE [active_caches |->
                    [key \in DOMAIN chunk_cache |->
                        LET data == heap[chunk_cache[key]]
                        IN [mode |-> data.mode, file |-> data.file,
                            topic |-> data.topic,
                            total_chunks |-> Len(data.chunks),
                            served |-> Cardinality(data.served),
                            remaining |-> Len(data.chunks) - Cardinality(data.served)]]],
           FALSE)
    /\ UNCHANGED <<chunk_cache, heap, servedLog, lastQuery, pc, frame, ret,
                    call, value>>

Query == \E file \in Files, topic \in Topics : get_chunk(file, topic)
Clear == \E file \in Files, topic \in Topics : clear_cache(file, topic)
Stop == \E file \in Files, topic \in Topics : stop_session(file, topic)
Status == cache_status

Next == Query \/ Clear \/ Stop \/ Status

Spec == Init /\ [][Next]_vars

-----------------------------------------------------------------------------
(* The handlers run concurrently.  FastAPI runs the synchronous handlers   *)
(* in a pool of worker threads, and main.py takes no lock: the calls       *)
(* interleave between statements.  One action is one step of one thread    *)
(* between two accesses of the shared chunk_cache or of a session dict.    *)

\* what no step of a thread writes: the history variables and the helper calls
histories == <<response, servedLog, lastQuery, call, value>>

\* the (file, topic) parameters of the concurrent calls: one key, two modes
ConcFiles == {Some(<<"a">>)}
ConcTopics == {None}

FrameKey(t) == cache_key(frame[t].file, frame[t].topic)

\* the thread's handler returns payload (or raises, when payload is Exception)
Return(t, payload) ==
    /\ pc' = [pc EXCEPT ![t] = "idle"]
    /\ frame' = [frame EXCEPT ![t] = IdleFrame]
    /\ ret' = [ret EXCEPT ![t] = payload]

\* an exception no handler catches: the request ends as a server error
Exception(exception) == [exception |-> exception]

Goto(t, label, locals) ==
    /\ pc' = [pc EXCEPT ![t] = label]
    /\ frame' = [frame EXCEPT ![t] = locals]
    /\ UNCHANGED ret

\* main.py:43-46: the key is derived and looked up
query_test(t, file, topic) ==
    /\ pc[t] = "idle"
    /\ Goto(t, IF cache_key(file, topic) \in DOMAIN chunk_cache THEN "q47" ELSE "q72",
            [IdleFrame EXCEPT !.op = "query", !.file = file, !.topic = topic])
    /\ UNCHANGED <<chunk_cache, heap, histories>>

\* main.py:47: session = chunk_cache[cache_key]
query_session(t) ==
    /\ pc[t] = "q47"
    /\ IF FrameKey(t) \in DOMAIN chunk_cache
       THEN Goto(t, "q48", [frame[t] EXCEPT !.session = chunk_cache[FrameKey(t)]])
       ELSE Return(t, Exception("KeyError"))
    /\ UNCHANGED <<chunk_cache, heap, histories>>

\* main.py:48-51: remaining is read off the session
query_remaining(t) ==
    /\ pc[t] = "q48"
    /\ Goto(t, IF remaining_of(heap[frame[t].session]) = <<>> THEN "q52" ELSE "q56",
            [frame[t] EXCEPT !.remaining = remaining_of(heap[frame[t].session])])
    /\ UNCHANGED <<chunk_cache, heap, histories>>

\* main.py:52-53: del chunk_cache[cache_key]; return Cleared
query_evict(t) ==
    /\ pc[t] = "q52"
    /\ IF FrameKey(t) \in DOMAIN chunk_cache
       THEN /\ chunk_cache' = delete(chunk_cache, FrameKey(t))
            /\ Return(t, ClearedPayload)
       ELSE /\ UNCHANGED chunk_cache
            /\ Return(t, Exception("KeyError"))
    /\ heap' = collect(heap, live_refs(chunk_cache', frame'))
    /\ UNCHANGED histories

\* main.py:56-57: a remaining chunk is picked and its index looked up
query_pick(t) ==
    /\ pc[t] = "q56"
    /\ \E chunk \in Range(frame[t].remaining) :
          Goto(t, "q58",
               [frame[t] EXCEPT !.chunk = chunk,
                    !.chunk_index = index(heap[frame[t].session].chunks, chunk)])
    /\ UNCHANGED <<chunk_cache, heap, histories>>

\* main.py:58-68: the index is marked served and the chunk returned
query_mark(t) ==
    /\ pc[t] = "q58"
    /\ Return(t, ServedPayload(heap[frame[t].session], frame[t].chunk_index,
                               frame[t].chunk, frame[t].remaining))
    /\ heap' = collect(mark_served(heap, frame[t].session, frame[t].chunk_index),
                       live_refs(chunk_cache, frame'))
    /\ UNCHANGED <<chunk_cache, histories>>

\* main.py:72-75 and 98-99: the retrieval runs
query_retrieve(t) ==
    /\ pc[t] = "q72"
    /\ \E result \in Retrievals[frame[t].file, frame[t].topic] :
          IF "raised" \in DOMAIN result THEN Return(t, ErrorPayload(result.raised))
          ELSE IF result.context_chunks = <<>> THEN Return(t, EmptyPayload(result))
          ELSE Goto(t, "q77", [frame[t] EXCEPT !.result = result])
    /\ UNCHANGED <<chunk_cache, heap, histories>>

\* main.py:77-83: chunk_cache[cache_key] = the new session
query_seed(t) ==
    /\ pc[t] = "q77"
    /\ chunk_cache' = (FrameKey(t) :> new_ref(heap)) @@ chunk_cache
    /\ heap' = collect(
           (new_ref(heap) :> new_session(frame[t].file, frame[t].topic,
                                         frame[t].result)) @@ heap,
           live_refs(chunk_cache', frame))
    /\ Goto(t, "q86", frame[t])
    /\ UNCHANGED histories

\* main.py:86-99: the first chunk is picked and marked in chunk_cache[cache_key];
\* a KeyError of that lookup is caught by the except clause
query_first(t) ==
    /\ pc[t] = "q86"
    /\ \E first_chunk \in Range(frame[t].result.context_chunks) :
          IF FrameKey(t) \in DOMAIN chunk_cache
          THEN /\ heap' = mark_served(heap, chunk_cache[FrameKey(t)],
                              index(frame[t].result.context_chunks, first_chunk))
               /\ Return(t, CreatedPayload(frame[t].file, frame[t].topic,
                                           frame[t].result, first_chunk))
          ELSE /\ UNCHANGED heap
               /\ Return(t, ErrorPayload("KeyError"))
    /\ UNCHANGED <<chunk_cache, histories>>

\* main.py:113-114 and 117: clear_cache looks the key up
clear_test(t, file, topic) ==
    /\ pc[t] = "idle"
    /\ IF cache_key(file, topic) \in DOMAIN chunk_cache
       THEN Goto(t, "c115",
                 [IdleFrame EXCEPT !.op = "clear", !.file = file, !.topic = topic])
       ELSE Return(t, ClearNonePayload)
    /\ UNCHANGED <<chunk_cache, heap, histories>>

\* main.py:115-116: del chunk_cache[cache_key]
clear_delete(t) ==
    /\ pc[t] = "c115"
    /\ IF FrameKey(t) \in DOMAIN chunk_cache
       THEN /\ chunk_cache' = delete(chunk_cache, FrameKey(t))
            /\ Return(t, ClearDonePayload(frame[t].file, frame[t].topic))
       ELSE /\ UNCHANGED chunk_cache
            /\ Return(t, Exception("KeyError"))
    /\ heap' = collect(heap, live_refs(chunk_cache', frame'))
    /\ UNCHANGED histories

\* main.py:131-132 and 135: stop_session looks the key up
stop_test(t, file, topic) ==
    /\ pc[t] = "idle"
    /\ IF cache_key(file, topic) \in DOMAIN chunk_cache
       THEN Goto(t, "s133",
                 [IdleFrame EXCEPT !.op = "stop", !.file = file, !.topic = topic])
       ELSE Return(t, StopNonePayload)
    /\ UNCHANGED <<chunk_cache, heap, histories>>

\* main.py:133-134: del chunk_cache[cache_key]
stop_delete(t) ==
    /\ pc[t] = "s133"
    /\ IF FrameKey(t) \in DOMAIN chunk_cache
       THEN /\ chunk_cache' = delete(chunk_cache, FrameKey(t))
            /\ Return(t, StopDonePayload)
       ELSE /\ UNCHANGED chunk_cache
            /\ Return(t, Exception("KeyError"))
    /\ heap' = collect(heap, live_refs(chunk_cache', frame'))
    /\ UNCHANGED histories

QueryStep(t) ==
    \/ \E file \in ConcFiles, topic \in ConcTopics : query_test(t, file, topic)
    \/ query_session(t)
    \/ query_remaining(t)
    \/ query_evict(t)
    \/ query_pick(t)
    \/ query_mark(t)
    \/ query_retrieve(t)
    \/ query_seed(t)
    \/ query_first(t)

ClearStep(t) ==
    \/ \E file \in ConcFiles, topic \in ConcTopics : clear_test(t, file, topic)
    \/ clear_delete(t)

StopStep(t) ==
    \/ \E file \in ConcFiles, topic \in ConcTopics : stop_test(t, file, topic)
    \/ stop_delete(t)

NextConc == \E t \in Threads : QueryStep(t) \/ ClearStep(t) \/ StopStep(t)

SpecConc == Init /\ [][NextConc]_vars

-----------------------------------------------------------------------------
(* unstructured_helper.extract_chunks.  In its texts the tokens             *)
(* "Introduction", "see", "below" and "is" are whole words, "bullet" is    *)
(* the character U+2022, and every other token is one character.           *)

\* characters that are neither whitespace nor word characters (\w)
Punctuation == {":", ".", "!", "?", "-", "bullet"}

IsWordChar(token) == token \notin Whitespace \cup Punctuation

\* len(token as a Python string)
TokenLen(token) ==
    CASE token = "Introduction" -> 12
      [] token = "below" -> 5
      [] token = "see" -> 3
      [] token = "is" -> 2
      [] OTHER -> 1

\* len(text)
RECURSIVE len(_)
len(text) == IF text = <<>> THEN 0 ELSE TokenLen(Head(text)) + len(Tail(text))

\* text.lower()
lower(text) ==
    [n \in DOMAIN text |-> IF text[n] = "Introduction" THEN "introduction" ELSE text[n]]

\* len(text.split()): the number of maximal runs of non-whitespace characters
word_count(text) ==
    Cardinality({n \in 1..Len(text) :
                    /\ text[n] \notin Whitespace
                    /\ (n = 1 \/ text[n - 1] \in Whitespace)})

\* re.search(r":$", text.strip()) / re.search(r"[.!?]$", text)
ends_with(text, characters) == text # <<>> /\ text[Len(text)] \in characters

\* re.match(r"^[-bullet]|\w+:", nxt_text)
list_like(nxt_text) ==
    \/ nxt_text # <<>> /\ Head(nxt_text) \in {"-", "bullet"}
    \/ \E n \in 2..Len(nxt_text) :
           /\ nxt_text[n] = ":"
           /\ \A m \in 1..(n - 1) : IsWordChar(nxt_text[m])

\* re.search(r"\b(is|are|was|were|has|have|can|should|will|be)\b", text.lower())
has_auxiliary(text) ==
    \E n \in 1..Len(text) :
        /\ lower(text)[n] \in {"is", "are", "was", "were", "has", "have", "can",
                                "should", "will", "be"}
        /\ (n = 1 \/ ~IsWordChar(text[n - 1]))
        /\ (n = Len(text) \/ ~IsWordChar(text[n + 1]))

\* "\n".join(texts)
RECURSIVE join(_)
join(texts) ==
    IF texts = <<>> THEN <<>>
    ELSE IF Len(texts) = 1 THEN texts[1]
    ELSE texts[1] \o <<"\n">> \o join(Tail(texts))

\* (el.text or "").strip()
stripped_text(el) == strip(OrElse(el.text, <<>>))

\* current_type before the first element is placed
NoType == "None"

\* unstructured_helper.py:34-55: the lines merged into a lead-in, from element j on
RECURSIVE lookahead(_, _, _)
lookahead(elements, j, lookahead_texts) ==
    IF j > Len(elements) THEN [lookahead_texts |-> lookahead_texts, j |-> j]
    ELSE IF stripped_text(elements[j]) = <<>>
    THEN lookahead(elements, j + 1, lookahead_texts)
    ELSE IF elements[j].type = "Title" \/ word_count(stripped_text(elements[j])) > 60
    THEN [lookahead_texts |-> lookahead_texts, j |-> j]
    ELSE IF elements[j].type = "ListItem" \/ list_like(stripped_text(elements[j]))
    THEN lookahead(elements, j + 1,
                   Append(lookahead_texts, stripped_text(elements[j])))
    ELSE [lookahead_texts |-> lookahead_texts, j |-> j]

\* unstructured_helper.py:63-67
is_fragment(text) ==
    /\ word_count(text) < 8
    /\ ~ends_with(text, {".", "!", "?"})
    /\ ~has_auxiliary(text)

\* absorb with a fault: the fragment replaces the last chunk
absorb_over(chunks, text) ==
    [chunks EXCEPT ![Len(chunks)] = text]

\* unstructured_helper.py:69: chunks[-1] += "\n" + text
absorb(chunks, text) ==
    [chunks EXCEPT ![Len(chunks)] = @ \o <<"\n">> \o text]

\* unstructured_helper.py:74-78: the element starts a new chunk
breaks(current_chunk, current_type, text, el_type, max_chars) ==
    \/ len(current_chunk) + len(text) > max_chars
    \/ el_type = "Title"
    \/ (current_type # NoType /\ el_type # current_type /\ len(current_chunk) > 0)

\* unstructured_helper.py:22-84: the loop from element i on (i counts from 1)
RECURSIVE extract_loop(_, _, _, _, _, _)
extract_loop(elements, max_chars, i, chunks, current_chunk, current_type) ==
    IF i > Len(elements)
    THEN [chunks |-> chunks, current_chunk |-> current_chunk]
    ELSE IF stripped_text(elements[i]) = <<>>
    THEN extract_loop(elements, max_chars, i + 1, chunks, current_chunk, current_type)
    ELSE
        LET el_type == elements[i].type
            lead == stripped_text(elements[i])
            merged == IF ends_with(strip(lead), {":"}) /\ word_count(lead) < 30
                      THEN lookahead(elements, i + 1, <<>>)
                      ELSE [lookahead_texts |-> <<>>, j |-> i + 1]
            text == IF merged.lookahead_texts # <<>>
                    THEN lead \o <<"\n">> \o join(merged.lookahead_texts)
                    ELSE lead
            i_ == IF merged.lookahead_texts # <<>> THEN merged.j - 1 ELSE i
        IN IF is_fragment(text) /\ chunks # <<>>
           THEN extract_loop(elements, max_chars, i_ + 1, absorb(chunks, text),
                             current_chunk, current_type)
           ELSE IF breaks(current_chunk, current_type, text, el_type, max_chars)
           THEN extract_loop(elements, max_chars, i_ + 1,
                             Append(chunks, strip(current_chunk)), text, el_type)
           ELSE extract_loop(elements, max_chars, i_ + 1, chunks,
                             current_chunk
                                 \o (IF current_chunk # <<>> THEN <<"\n">> ELSE <<>>)
                                 \o text,
                             el_type)

\* unstructured_helper.py:17-87: the chunks before the short ones are dropped
segment(elements, max_chars) ==
    LET end == extract_loop(elements, max_chars, 1, <<>>, <<>>, NoType)
    IN IF strip(end.current_chunk) # <<>>
       THEN Append(end.chunks, strip(end.current_chunk))
       ELSE end.chunks

\* unstructured_helper.py:90: [c for c in chunks if len(c.split()) > 5]
RECURSIVE long_enough(_)
long_enough(chunks) ==
    IF chunks = <<>> THEN <<>>
    ELSE (IF word_count(Head(chunks)) > 5 THEN <<Head(chunks)>> ELSE <<>>)
         \o long_enough(Tail(chunks))

\* unstructured_helper.py:5-92; emitted is the list before line 90, kept beside
\* the returned one
extract_chunks(exists, elements, max_chars) ==
    IF ~exists THEN Raised("FileNotFoundError")
    ELSE [emitted |-> segment(elements, max_chars),
          chunks |-> long_enough(segment(elements, max_chars))]

-----------------------------------------------------------------------------
(* The helper functions on their own: call holds the arguments drawn for    *)
(* the helper, value what it returned for them.                            *)

cacheVars == <<chunk_cache, heap, response, servedLog, lastQuery, pc, frame, ret>>

\* most calls of the key derivation that are compared with one another
MaxCalls == 2

\* the strings a client can send as file or topic: empty, plain, the text of the
\* sentinel, the text of the separator and a string that contains the separator
KeyStrings == {<<>>, <<"a">>, <<"none">>, <<"::">>, <<"a", "::", "a">>}

\* file: str | None, topic: str | None
KeyArgs == {None} \cup {Some(x) : x \in KeyStrings}

InitKey ==
    /\ EmptyCache
    /\ call = [fn |-> "cache_key", args |-> <<>>]
    /\ value = <<>>

\* main.py:43 (and 113, 130): one more (file, topic) has its key derived
derive_key(file, topic) ==
    /\ Len(call.args) < MaxCalls
    /\ call' = [call EXCEPT !.args = Append(@, [file |-> file, topic |-> topic])]
    /\ value' = Append(value, cache_key(file, topic))
    /\ UNCHANGED cacheVars

NextKey == \E file \in KeyArgs, topic \in KeyArgs : derive_key(file, topic)

SpecKey == InitKey /\ [][NextKey]_vars

\* longest chunk sequence handed to deduplicate_semantic
MaxChunks == 3
\* most passes of deduplicate_semantic over its own output
MaxPasses == 2

\* chunk texts: "abcdefghij" with its prefix of 9 and its extension to 11 characters
\* (ratios 18/19 and 20/21 to it, and exactly 18/20 to each other), and two
\* texts whose ratio depends on the order of the arguments (20/22 and 14/22)
DedupTexts ==
    {<<"a", "b", "c", "d", "e", "f", "g", "h", "i">>,
     <<"a", "b", "c", "d", "e", "f", "g", "h", "i", "j">>,
     <<"a", "b", "c", "d", "e", "f", "g", "h", "i", "j", "k">>,
     <<"b", "a", "a", "b", "a", "a", "b", "a", "b", "b", "a">>,
     <<"b", "a", "b", "a", "b", "a", "a", "a", "b", "b", "a">>}

InitDedup ==
    /\ EmptyCache
    /\ \E chunks \in SeqsUpTo(DedupTexts, MaxChunks) :
           call = [fn |-> "deduplicate_semantic", chunks |-> chunks]
    /\ value = <<>>

\* rag_helper.py:190: deduplicate_semantic applied to the chunks, then to its output
dedupe ==
    /\ call.fn = "deduplicate_semantic"
    /\ Len(value) < MaxPasses
    /\ value' = Append(value, deduplicate_semantic(
                     IF value = <<>> THEN call.chunks ELSE value[Len(value)]))
    /\ UNCHANGED <<call, cacheVars>>

NextDedup == dedupe

SpecDedup == InitDedup /\ [][NextDedup]_vars

\* longest element list partition() hands to the segmenter
MaxElements == 3

\* the elements partition() can return: a heading, short fragments, a fragment of
\* six words, a sentence, a lead-in, a list item, a "key: value" line, a heading
\* that is a sentence, and an element without text
ElementPool ==
    {[type |-> "Title", text |-> Some(<<"Introduction">>)],
     [type |-> "NarrativeText", text |-> Some(<<"Introduction">>)],
     [type |-> "NarrativeText", text |-> Some(<<" ", "see", " ", "below">>)],
     [type |-> "NarrativeText",
      text |-> Some(<<"a", " ", "b", " ", "c", " ", "d", " ", "f", " ", "g">>)],
     [type |-> "NarrativeText",
      text |-> Some(<<"h", " ", "i", " ", "j", " ", "k", " ", "m", " ", "o", ".">>)],
     [type |-> "NarrativeText", text |-> Some(<<"p", " ", "q", ":">>)],
     [type |-> "ListItem", text |-> Some(<<"-", " ", "r", "\n">>)],
     [type |-> "NarrativeText", text |-> Some(<<"u", ":", " ", "v">>)],
     [type |-> "Title",
      text |-> Some(<<"x", " ", "is", " ", "y", " ", "z", " ", "t", " ", "z">>)],
     [type |-> "Text", text |-> None]}

\* max_chars: the default, and a cap that two of the texts together exceed
MaxCharsChoices == {16, 1200}

InitSegment ==
    /\ EmptyCache
    /\ \/ \E elements \in SeqsUpTo(ElementPool, MaxElements),
             max_chars \in MaxCharsChoices :
              call = [fn |-> "extract_chunks", exists |-> TRUE,
                      elements |-> elements, max_chars |-> max_chars]
       \/ call = [fn |-> "extract_chunks", exists |-> FALSE,
                  elements |-> <<>>, max_chars |-> 1200]
    /\ value = Unset

\* unstructured_helper.py:5-92: the file is partitioned and segmented
segment_file ==
    /\ call.fn = "extract_chunks"
    /\ value = Unset
    /\ value' = extract_chunks(call.exists, call.elements, call.max_chars)
    /\ UNCHANGED <<call, cacheVars>>

NextSegment == segment_file

SpecSegment == InitSegment /\ [][NextSegment]_vars

InitRetrieve ==
    /\ EmptyCache
    /\ \E file_name \in Files, topic \in Topics :
           \E world \in WorldsFor(file_name, topic) :
               call = [fn |-> "get_relevant_chunks", file_name |-> file_name,
                       topic |-> topic, world |-> world]
    /\ value = Unset

\* rag_helper.py:114-195: one retrieval in the world drawn for it
retrieve ==
    /\ call.fn = "get_relevant_chunks"
    /\ value = Unset
    /\ value' = get_relevant_chunks(call.file_name, call.topic, call.world)
    /\ UNCHANGED <<call, cacheVars>>

NextRetrieve == retrieve

SpecRetrieve == InitRetrieve /\ [][NextRetrieve]_vars

-----------------------------------------------------------------------------
(* Properties of the helper functions                                      *)

\* C12 (key derivation): the key is a function of (file, topic), equal arguments
\* give equal keys, and for every string x the key of (file absent, topic x)
\* differs from the key of (file x, topic absent).
C12_KeyDerivation ==
    call.fn = "cache_key" =>
        \A m, n \in 1..Len(value) :
            /\ call.args[m] = call.args[n] => value[m] = value[n]
            /\ (/\ call.args[m].file = None /\ call.args[m].topic # None
                /\ call.args[n].topic = None
                /\ call.args[n].file = call.args[m].topic)
                   => value[m] # value[n]

NoEqualTexts(chunks) ==
    \A i, j \in 1..Len(chunks) : i # j => chunks[i] # chunks[j]

\* u is c with some elements left out, the others in their order
RECURSIVE IsSubsequence(_, _)
IsSubsequence(u, c) ==
    IF u = <<>> THEN TRUE
    ELSE IF c = <<>> THEN FALSE
    ELSE IF Head(u) = Head(c) THEN IsSubsequence(Tail(u), Tail(c))
    ELSE IsSubsequence(u, Tail(c))

\* C13 (dedup idempotence): deduplicate_semantic applied to its own output returns
\* that output, and its output is an order-preserving subsequence of its input,
\* also for chunks whose similarity depends on the order of the two arguments.
C13_DedupIdempotent ==
    (call.fn = "deduplicate_semantic" /\ value # <<>>) =>
        /\ IsSubsequence(value[1], call.chunks)
        /\ \A n \in 2..Len(value) : value[n] = value[1]

\* a second pass ran over an output that dropped one chunk of three and kept two,
\* the first of which is similar to the second in that order of the arguments only
C13_Witness ==
    /\ call.fn = "deduplicate_semantic"
    /\ Len(value) = 2
    /\ Len(call.chunks) = 3
    /\ Len(value[1]) = 2
    /\ is_similar(value[1][1], value[1][2])

\* C21 (key separation): the key derivation is injective: two (file, topic) pairs
\* that differ never get the same key, and so never the same session, also when a
\* string equals the sentinel text, contains the separator, or is empty rather
\* than absent.
C21_KeyInjective ==
    call.fn = "cache_key" =>
        \A m, n \in 1..Len(value) :
            call.args[m] # call.args[n] => value[m] # value[n]

\* SequenceMatcher(None, a, b).ratio() < threshold
below_threshold(a, b) ==
    /\ Len(a) + Len(b) > 0
    /\ 2 * matches(a, b) * ThresholdDen < ThresholdNum * (Len(a) + Len(b))

\* C17 (dedup acceptance threshold): every chunk of the output has a similarity
\* strictly below the threshold to each chunk accepted before it; a similarity
\* equal to the threshold rejects the candidate.
C17_DedupThreshold ==
    (call.fn = "deduplicate_semantic" /\ value # <<>>) =>
        \A n \in 1..Len(value[1]) :
            \A m \in 1..(n - 1) : below_threshold(value[1][n], value[1][m])

\* the texts of the elements that have one, stripped, in input order
RECURSIVE texts_of(_)
texts_of(elements) ==
    IF elements = <<>> THEN <<>>
    ELSE (IF stripped_text(Head(elements)) # <<>>
          THEN <<stripped_text(Head(elements))>> ELSE <<>>)
         \o texts_of(Tail(elements))

\* the places of chunk where text stands
Occurrences(text, chunk) ==
    {n \in 1..(Len(chunk) - Len(text) + 1) : SubSeq(chunk, n, n + Len(text) - 1) = text}

\* how often text stands in the chunks
RECURSIVE Count(_, _)
Count(text, chunks) ==
    IF chunks = <<>> THEN 0
    ELSE Cardinality(Occurrences(text, Head(chunks))) + Count(text, Tail(chunks))

Segmented == call.fn = "extract_chunks" /\ value # Unset /\ "chunks" \in DOMAIN value

\* C14 (segmenter ordering): the returned chunks are in input order: of two
\* elements, the text of the earlier one never stands after the text of the later
\* one, in a later chunk or later in the same chunk.  Stated for inputs whose
\* texts are all different.
C14_SegmentOrder ==
    (Segmented /\ NoEqualTexts(texts_of(call.elements))) =>
        \A m, n \in 1..Len(texts_of(call.elements)) :
            m < n =>
                \A p \in Occurrences(texts_of(call.elements)[m], join(value.chunks)) :
                    \A q \in Occurrences(texts_of(call.elements)[n], join(value.chunks)) :
                        p < q

\* C15 (fragment absorption): for the elements "Introduction", "see below" the
\* fragment is in the chunk that holds the first element, not in one of its own.
C15_FragmentAbsorbed ==
    (Segmented /\ texts_of(call.elements) =
                      <<<<"Introduction">>, <<"see", " ", "below">>>>) =>
        \E n \in 1..Len(value.emitted) :
            /\ Occurrences(<<"Introduction">>, value.emitted[n]) # {}
            /\ Occurrences(<<"see", " ", "below">>, value.emitted[n]) # {}

\* C16 (segmenter total coverage): before the short chunks are dropped, the text
\* of every element that has one stands in the chunks once for each element
\* with that text: none is lost and none is doubled.
C16_SegmentCoverage ==
    Segmented =>
        \A text \in Range(texts_of(call.elements)) :
            Count(text, value.emitted) =
                Cardinality({n \in 1..Len(texts_of(call.elements)) :
                                texts_of(call.elements)[n] = text})

\* a heading broke the empty chunk off, the lead-in after it took its list item
\* in and was absorbed as a fragment, and the heading was flushed at the end
C16_Witness ==
    /\ Segmented
    /\ Len(texts_of(call.elements)) = 3
    /\ Len(value.emitted) = 2
    /\ value.emitted[1] = <<"\n", "p", " ", "q", ":", "\n", "-", " ", "r">>
    /\ Occurrences(texts_of(call.elements)[1], value.emitted[2]) # {}

\* C18 (chunks are trimmed): every returned chunk is non-empty and neither starts
\* nor ends with whitespace or a newline.
C18_ChunksTrimmed ==
    Segmented =>
        \A n \in 1..Len(value.chunks) :
            value.chunks[n] # <<>> /\ strip(value.chunks[n]) = value.chunks[n]

\* the files of the listing whose parsing, indexing and querying succeeded
Built(world) ==
    {n \in 1..Len(NotesDir) : supported(NotesDir[n]) /\ world.built[n].ok}

\* C19 (topic-only failure isolation): whichever files of the listing fail to be
\* parsed or indexed, all of them included, topic-only retrieval raises nothing
\* and returns a topic_only result holding exactly the chunks of the other files,
\* each once, in the order of their first occurrence.
C19_TopicOnlyIsolation ==
    (/\ call.fn = "get_relevant_chunks" /\ value # Unset
     /\ ~Truthy(call.file_name) /\ Truthy(call.topic)
     /\ call.world.listed) =>
        /\ "raised" \notin DOMAIN value
        /\ value.mode = "topic_only" /\ value.file = None /\ value.topic = call.topic
        /\ value.total_chunks = Len(value.context_chunks)
        /\ NoEqualTexts(value.context_chunks)
        /\ Range(value.context_chunks) =
               {strip(call.world.built[n].docs[d]) :
                   <<n, d>> \in {nd \in Built(call.world) \X (1..MaxDocs) :
                                    nd[2] <= Len(call.world.built[nd[1]].docs)}}
               \ {<<>>}
        /\ \A m, n \in 1..Len(value.context_chunks) :
               m < n => index(all_chunks(call.world, Len(NotesDir)),
                              value.context_chunks[m])
                        < index(all_chunks(call.world, Len(NotesDir)),
                                value.context_chunks[n])

\* the first file failed, the second returned the same chunk twice: one chunk
C19_Witness ==
    /\ call.fn = "get_relevant_chunks" /\ value # Unset
    /\ ~Truthy(call.file_name) /\ Truthy(call.topic)
    /\ Built(call.world) = {2}
    /\ call.world.built[2].docs = <<<<"x">>, <<"x">>>>
    /\ "raised" \notin DOMAIN value
    /\ value.context_chunks = <<<<"x">>>>

-----------------------------------------------------------------------------
(* Properties of the handlers run one request at a time                    *)

ResponseKey == cache_key(response.file, response.topic)

IsQuery(message) ==
    /\ response.op = "query"
    /\ "message" \in DOMAIN response.payload
    /\ response.payload.message = message

\* C1 (no-repeat): between the creation of a session and its eviction no chunk
\* index is served twice, whatever pool the retrieval returned.
C1_NoRepeat ==
    \A k \in DOMAIN servedLog :
        \A i, j \in 1..Len(servedLog[k]) :
            i # j => servedLog[k][i] # servedLog[k][j]

\* C2 (exhaustion): a session of N chunks serves a chunk on each of its first N
\* queries and no more: after N serves nothing remains, so that the next query
\* returns Cleared and evicts.
C2_Exhaustion ==
    \A k \in DOMAIN chunk_cache :
        /\ Len(servedLog[k]) <= Len(Session(k).chunks)
        /\ Len(servedLog[k]) = Len(Session(k).chunks)
               => remaining_of(Session(k)) = <<>>

\* C7 (invalid query): query(file=None, topic=None) returns the error payload of
\* InvalidQuery and serves no chunk, in every reachable cache state.
C7_InvalidQuery ==
    (response.op = "query" /\ response.file = None /\ response.topic = None)
        => response.payload = ErrorPayload("ValueError")

\* C6 (failed builds create no session): a query that ends with an error payload
\* leaves the key-to-session mapping, and every session, as they were before it.
C6_FailedBuildNoSession ==
    [][(response'.op = "query" /\ "error" \in DOMAIN response'.payload)
          => (chunk_cache' = chunk_cache /\ heap' = heap)]_vars

\* a failed query on one key while another key has a session
C6_Witness ==
    /\ response.op = "query"
    /\ response.payload = ErrorPayload("FileNotFoundError")
    /\ response.retrieval
    /\ DOMAIN chunk_cache # {}

\* the mode the router selects for (file, topic)
ModeFor(file, topic) ==
    IF Truthy(file) /\ ~Truthy(topic) THEN "file_only"
    ELSE IF Truthy(topic) /\ ~Truthy(file) THEN "topic_only"
    ELSE "file_and_topic"

\* C8 (empty result): a query whose retrieval returns no chunks returns Empty
\* tagged with the mode and leaves no session under its key, and the next query
\* on that key invokes the retrieval again.
C8_EmptyResult ==
    /\ IsQuery("No relevant chunks found.") =>
           /\ response.retrieval
           /\ response.payload.mode = ModeFor(response.file, response.topic)
           /\ ResponseKey \notin DOMAIN chunk_cache
    /\ (response.op = "query" /\ response.after = "empty") => response.retrieval

\* the query after an Empty one ran the retrieval and created a session
C8_Witness ==
    /\ IsQuery("Cache created and first chunk served.")
    /\ response.after = "empty"
    /\ response.retrieval

\* C9 (exhaustion, then rebuild): the query after one that returned Cleared invokes
\* the retrieval again; if chunks come back the new session has exactly the index
\* served by that call marked, and otherwise there is no session.
C9_Rebuild ==
    (response.op = "query" /\ response.after = "cleared") =>
        /\ response.retrieval
        /\ IF IsQuery("Cache created and first chunk served.")
           THEN /\ ResponseKey \in DOMAIN chunk_cache
                /\ Session(ResponseKey).served =
                       {index(Session(ResponseKey).chunks, response.payload.chunk)}
                /\ servedLog[ResponseKey] =
                       <<index(Session(ResponseKey).chunks, response.payload.chunk)>>
                /\ Len(Session(ResponseKey).chunks) = response.payload.remaining + 1
           ELSE ResponseKey \notin DOMAIN chunk_cache

\* a session of two chunks rebuilt right after the Cleared of its key
C9_Witness ==
    /\ IsQuery("Cache created and first chunk served.")
    /\ response.after = "cleared"
    /\ response.payload.remaining = 1

\* what clear / stop report when a session existed, and when none did
Reports(existed) ==
    IF existed
    THEN {"Cache cleared for query", "Session stopped and cache cleared."}
    ELSE {"No cache found to clear.", "No active session to stop."}

\* C10 (clear and stop): each deletes the session of the derived key if there is
\* one and reports that it existed, reports its absence and changes nothing
\* otherwise, and leaves the sessions of all other keys as they were.
C10_ClearStopSame ==
    [][response'.op \in {"clear", "stop"} =>
          LET k == cache_key(response'.file, response'.topic)
          IN /\ DOMAIN chunk_cache' = DOMAIN chunk_cache \ {k}
             /\ \A j \in DOMAIN chunk_cache' :
                    heap'[chunk_cache'[j]] = heap[chunk_cache[j]]
             /\ response'.payload.message \in Reports(k \in DOMAIN chunk_cache)]_vars

\* stop deleted a session and another key still has its own
C10_Witness ==
    /\ response.op = "stop"
    /\ response.payload = StopDonePayload
    /\ DOMAIN chunk_cache # {}

C20_SessionInvariant ==
    [][/\ \A k \in DOMAIN chunk_cache' :
              /\ heap'[chunk_cache'[k]].chunks # <<>>
              /\ heap'[chunk_cache'[k]].served
                     \subseteq 0..(Len(heap'[chunk_cache'[k]].chunks) - 1)
       /\ \A o \in DOMAIN heap \cap DOMAIN heap' :
              heap'[o].chunks = heap[o].chunks]_vars

-----------------------------------------------------------------------------
(* Properties of the handlers run concurrently                             *)

\* C3 (mutual exclusion of the serve step): two concurrent queries served from
\* one live session never hold, and so never return and mark, the same chunk
\* index.  Stated for sessions whose chunk texts are all different.
C3_ServeExclusive ==
    \A t, u \in Threads :
        (/\ t # u
         /\ pc[t] = "q58" /\ pc[u] = "q58"
         /\ frame[t].session = frame[u].session
         /\ NoEqualTexts(heap[frame[t].session].chunks))
            => frame[t].chunk_index # frame[u].chunk_index

\* C4 (one build per uncached key): of the queries that arrive while a key has no
\* session only one retrieves and stores a session; a call that is about to store
\* its session never finds one already stored under its key.
C4_SingleBuild ==
    \A t \in Threads :
        pc[t] = "q77" =>
            /\ FrameKey(t) \notin DOMAIN chunk_cache
            /\ \A u \in Threads \ {t} :
                   FrameKey(u) = FrameKey(t) => pc[u] \notin {"q77", "q86"}

\* C5 (atomic check and evict): every query, clear and stop call returns a
\* payload; none ends with an exception that no handler catches.
C5_NoUnhandledException ==
    \A t \in Threads : "exception" \notin DOMAIN ret[t]

====
